---- MODULE Spec2Model ----
(***************************************************************************)
(* Task-management API: the users and tasks tables (config/migrate),       *)
(* the Task and User models (models/Task.js, models/User.js) and the task  *)
(* controller (controllers/taskController.js).  Every controller issues    *)
(* one SQL statement, so every handler is one atomic step of the store.    *)
(***************************************************************************)
EXTENDS Integers, Sequences, FiniteSets, TLC

\* ------------------------------------------------------------------ bounds
\* Largest value the users_id_seq and tasks_id_seq sequences may reach.
MaxUsers == 2
MaxTasks == 2
\* The clock counts ticks up to MaxTime; JWT_EXPIRE ('24h') is JwtExpireTicks of them.
MaxTime == 3
JwtExpireTicks == 2
\* A login is answered while fewer than MaxJwts tokens have been handed out.
MaxJwts == 2
\* The rate limiter: windowMs (15 minutes) is WindowTicks ticks and max (100)
\* is MaxPerWindow requests; a client sends at most MaxRefused requests beyond
\* max in one window.
WindowTicks == 2
MaxPerWindow == 2
MaxRefused == 1
\* Most requests in flight at one time.
MaxInFlight == 2
\* Most requests of the Dashboard in flight at one time.
MaxUiInFlight == 3

\* ------------------------------------------------------- values and inputs
\* JavaScript undefined (a key absent from the JSON body) and SQL NULL / JSON null.
Undefined == "undefined"
Null == "null"

\* CHECK (role IN ('user', 'admin'))
Roles == {"user", "admin"}
\* CHECK (status IN ('pending', 'in_progress', 'completed'))
Statuses == {"pending", "in_progress", "completed"}
\* CHECK (priority IN ('low', 'medium', 'high'))
Priorities == {"low", "medium", "high"}

\* An id absent from a request or NULL in a column is 0: ids are integers.
NoId == 0
TaskIds == 1..MaxTasks
UserIds == 1..MaxUsers

\* Request inputs: what a client may put in the JSON body of a task request.
Body(title, description, status, priority, user_id) ==
    [title |-> title, description |-> description, status |-> status,
     priority |-> priority, user_id |-> user_id]
NoBody == Body(Undefined, Undefined, Undefined, Undefined, NoId)

\* Bodies of the access-control runs: a valid create, one without a title, one
\* that names another owner; a status update, an empty update, an update to a
\* status the table rejects and one that names another owner.
AccessCreateBodies ==
    {Body("t1", Undefined, Undefined, Undefined, NoId),
     Body(Undefined, Undefined, Undefined, Undefined, NoId),
     Body("t1", Undefined, Undefined, Undefined, 1)}
AccessUpdateBodies ==
    {Body(Undefined, Undefined, "completed", Undefined, NoId),
     NoBody,
     Body(Undefined, Undefined, "bogus", Undefined, NoId),
     Body(Undefined, Undefined, "completed", Undefined, 1)}

\* Bodies of the field runs: every subset of the four fields.
FieldCreateBodies ==
    [title : {Undefined, "t1"}, description : {Undefined}, status : {Undefined, Null, "completed"},
     priority : {Undefined, "high", "urgent"}, user_id : {NoId, 2}]
FieldUpdateBodies ==
    [title : {Undefined, "t2"}, description : {Undefined, "d1"},
     status : {Undefined, "completed", "bogus"}, priority : {Undefined, "high"},
     user_id : {NoId}]

\* Inputs of registration, login and the user updates.
Names == {"n1"}
Emails == {"e1", "e2"}
Passwords == {"p1"}
RoleInputs == {Undefined, "admin"}
UserFields == [name : Names, email : Emails, password : Passwords, role : RoleInputs]
OneUserFields == [name : Names, email : {"e1"}, password : Passwords, role : RoleInputs]
RoleUpdates == [name : {Undefined}, email : {Undefined}, role : Roles]

VARIABLES
    users,          \* users table: id -> row, for the rows that exist
    users_id_seq,   \* last value of the SERIAL sequence of users.id
    tasks,          \* tasks table: id -> row, for the rows that exist
    tasks_id_seq,   \* last value of the SERIAL sequence of tasks.id
    now,            \* CURRENT_TIMESTAMP of the database (held: no claim here reads a time)
    tokens,         \* payloads {id, role} of the bearer tokens issued so far
    last,           \* the last request handled and the response it was given
    jwts,           \* the signed tokens handed out, each with the payload it was made from
    auth,           \* the last call of verifyToken: the token, the time and what it returned
    hits,           \* the store of the rate limiter: client -> its hits and when they reset
    admitted,       \* history: client -> time -> the /api/ requests passed on at that time
    wire,           \* the last HTTP response the server sent
    net,            \* the requests in flight, from the client's send to its receipt of the answer
    ui              \* the state of the Dashboard component in the browser

vars == <<users, users_id_seq, tasks, tasks_id_seq, now, tokens, last, jwts, auth,
          hits, admitted, wire, net, ui>>

\* ------------------------------------------------------------ SQL helpers
\* node-postgres sends an undefined parameter as NULL.
SqlParam(v) == IF v = Undefined THEN Null ELSE v

\* bcrypt.hash(password, 10): the stored value is a digest, a string like the
\* input and different from it.
\* Mutant: the password is stored as it was submitted.
BcryptHash_Plaintext(password) == password
BcryptHash(password) == "$2a$10$" \o password

\* ------------------------------------------------------------ tasks table
\* The constraints of the tasks table on a candidate row: the text of the error
\* Postgres raises, or NoError.  NOT NULL is checked first, then the CHECK
\* constraints (a CHECK whose value is NULL is satisfied), and the foreign key
\* when the statement ends.
NoError == "none"
\* Mutant: the tasks table without its foreign key.
TasksConstraintError_NoForeignKey(row) ==
    IF row.title = Null
    THEN "null value in column title violates not-null constraint"
    ELSE IF row.priority # Null /\ row.priority \notin Priorities
    THEN "new row violates check constraint tasks_priority_check"
    ELSE IF row.status # Null /\ row.status \notin Statuses
    THEN "new row violates check constraint tasks_status_check"
    ELSE NoError
TasksConstraintError(row) ==
    IF row.title = Null
    THEN "null value in column title violates not-null constraint"
    ELSE IF row.priority # Null /\ row.priority \notin Priorities
    THEN "new row violates check constraint tasks_priority_check"
    ELSE IF row.status # Null /\ row.status \notin Statuses
    THEN "new row violates check constraint tasks_status_check"
    ELSE IF row.user_id = NoId
    THEN "null value in column user_id violates not-null constraint"
    ELSE IF row.user_id \notin DOMAIN users
    THEN "insert or update on table tasks violates foreign key constraint tasks_user_id_fkey"
    ELSE NoError

\* SELECT t.*, u.name as user_name, u.email as user_email
\*   FROM tasks t JOIN users u ON t.user_id = u.id
JoinedRow(t) ==
    [id |-> t.id, title |-> t.title, description |-> t.description,
     status |-> t.status, priority |-> t.priority, user_id |-> t.user_id,
     created_at |-> t.created_at, updated_at |-> t.updated_at,
     user_name |-> users[t.user_id].name, user_email |-> users[t.user_id].email]
JoinUsers == {id \in DOMAIN tasks : tasks[id].user_id \in DOMAIN users}

\* Task.create: the row the INSERT builds.  The destructuring defaults apply to
\* an undefined status or priority only; id and timestamps are column defaults.
\* Mutant: no destructuring defaults, an undefined status or priority goes in as NULL.
TaskCreateRow_NoDefaults(fields) ==
    [id |-> tasks_id_seq + 1,
     title |-> SqlParam(fields.title),
     description |-> SqlParam(fields.description),
     status |-> SqlParam(fields.status),
     priority |-> SqlParam(fields.priority),
     user_id |-> fields.user_id,
     created_at |-> now,
     updated_at |-> now]
TaskCreateRow(fields) ==
    [id |-> tasks_id_seq + 1,
     title |-> SqlParam(fields.title),
     description |-> SqlParam(fields.description),
     status |-> IF fields.status = Undefined THEN "pending" ELSE fields.status,
     priority |-> IF fields.priority = Undefined THEN "medium" ELSE fields.priority,
     user_id |-> fields.user_id,
     created_at |-> now,
     updated_at |-> now]

\* Task.findAll: the ids its WHERE clause selects.
\* Mutant: the WHERE t.user_id = $1 clause is never added.
FindAllIds_Unfiltered(userId, isAdmin) == JoinUsers
FindAllIds(userId, isAdmin) ==
    {id \in JoinUsers : isAdmin \/ tasks[id].user_id = userId}

\* ORDER BY t.created_at DESC: every order of the rows the clause allows.
\* Mutant: ORDER BY t.created_at ASC.
OrderedByCreatedDesc_Asc(ids) ==
    {s \in [1..Cardinality(ids) -> ids] :
        /\ \A i, j \in DOMAIN s : i # j => s[i] # s[j]
        /\ \A i, j \in DOMAIN s :
              i < j => tasks[s[i]].created_at <= tasks[s[j]].created_at}
OrderedByCreatedDesc(ids) ==
    {s \in [1..Cardinality(ids) -> ids] :
        /\ \A i, j \in DOMAIN s : i # j => s[i] # s[j]
        /\ \A i, j \in DOMAIN s :
              i < j => tasks[s[i]].created_at >= tasks[s[j]].created_at}
TaskFindAll(userId, isAdmin) ==
    {[i \in DOMAIN s |-> JoinedRow(tasks[s[i]])] :
        s \in OrderedByCreatedDesc(FindAllIds(userId, isAdmin))}

\* Task.findById: result.rows, as a sequence of at most one row.
\* Mutant: the AND t.user_id = $2 clause is never added.
TaskFindById_AnyOwner(id, userId, isAdmin) ==
    IF id \in JoinUsers THEN <<JoinedRow(tasks[id])>> ELSE << >>
\* Mutant: the AND t.user_id = $2 clause is added for administrators too.
TaskFindById_OwnerOnly(id, userId, isAdmin) ==
    IF id \in JoinUsers /\ tasks[id].user_id = userId
    THEN <<JoinedRow(tasks[id])>>
    ELSE << >>
TaskFindById(id, userId, isAdmin) ==
    IF id \in JoinUsers /\ (isAdmin \/ tasks[id].user_id = userId)
    THEN <<JoinedRow(tasks[id])>>
    ELSE <<>>

\* Task.update: the SET list is built from the fields that are not undefined.
UpdatesEmpty(fields) ==
    /\ fields.title = Undefined
    /\ fields.description = Undefined
    /\ fields.status = Undefined
    /\ fields.priority = Undefined
\* The rows the UPDATE's WHERE clause selects.
\* Mutant: the AND user_id = $n clause is never added.
TaskUpdateMatches_AnyOwner(id, userId, isAdmin) == id \in DOMAIN tasks
TaskUpdateMatches(id, userId, isAdmin) ==
    id \in DOMAIN tasks /\ (isAdmin \/ tasks[id].user_id = userId)
\* The row the UPDATE writes.
\* Mutant: every column is in the SET list, an omitted one is written as NULL.
TaskUpdateRow_WritesOmitted(id, userId, isAdmin, fields) ==
    [tasks[id] EXCEPT
        !.title = IF fields.title # Undefined THEN fields.title ELSE @,
        !.description = SqlParam(fields.description),
        !.status = IF fields.status # Undefined THEN fields.status ELSE @,
        !.priority = SqlParam(fields.priority),
        !.updated_at = now]
\* Mutant: the UPDATE also writes user_id, from the caller's id.
TaskUpdateRow_TakesCaller(id, userId, isAdmin, fields) ==
    [tasks[id] EXCEPT
        !.title = IF fields.title # Undefined THEN fields.title ELSE @,
        !.description = IF fields.description # Undefined THEN fields.description ELSE @,
        !.status = IF fields.status # Undefined THEN fields.status ELSE @,
        !.priority = IF fields.priority # Undefined THEN fields.priority ELSE @,
        !.user_id = userId,
        !.updated_at = now]
TaskUpdateRow(id, userId, isAdmin, fields) ==
    [tasks[id] EXCEPT
        !.title = IF fields.title # Undefined THEN fields.title ELSE @,
        !.description = IF fields.description # Undefined THEN fields.description ELSE @,
        !.status = IF fields.status # Undefined THEN fields.status ELSE @,
        !.priority = IF fields.priority # Undefined THEN fields.priority ELSE @,
        !.updated_at = now]

\* Task.delete: the rows the DELETE's WHERE clause selects.
\* Mutant: the DELETE reports a row whether or not one was there.
TaskDeleteMatches_Always(id, userId, isAdmin) == TRUE
TaskDeleteMatches(id, userId, isAdmin) ==
    id \in DOMAIN tasks /\ (isAdmin \/ tasks[id].user_id = userId)

\* Task.getStats: COUNT(*) and the three COUNT(CASE WHEN status = ...), over
\* the tasks table alone (no JOIN); the counts are given as the numbers they denote.
\* Mutant: the WHERE user_id = $1 clause is never added.
StatsIds_Unfiltered(userId, isAdmin) == DOMAIN tasks
StatsIds(userId, isAdmin) ==
    {id \in DOMAIN tasks : isAdmin \/ tasks[id].user_id = userId}
TaskGetStats(userId, isAdmin) ==
    LET ids == StatsIds(userId, isAdmin)
        n(st) == Cardinality({id \in ids : tasks[id].status = st})
    IN  [total |-> Cardinality(ids), pending |-> n("pending"),
         in_progress |-> n("in_progress"), completed |-> n("completed")]

\* Removing rows from a table.
Without(table, ids) == [id \in DOMAIN table \ ids |-> table[id]]
With(table, id, row) == [i \in DOMAIN table \cup {id} |-> IF i = id THEN row ELSE table[i]]

\* ------------------------------------------------------------ users table
\* name, email and password are NOT NULL, email is UNIQUE, role has a CHECK.
\* Mutant: the email column without UNIQUE.
UsersConstraintError_NoUnique(id, row) ==
    IF row.name = Null \/ row.email = Null \/ row.password = Null
    THEN "null value violates not-null constraint"
    ELSE IF row.role # Null /\ row.role \notin Roles
    THEN "new row violates check constraint users_role_check"
    ELSE NoError
UsersConstraintError(id, row) ==
    IF row.name = Null \/ row.email = Null \/ row.password = Null
    THEN "null value violates not-null constraint"
    ELSE IF row.role # Null /\ row.role \notin Roles
    THEN "new row violates check constraint users_role_check"
    ELSE IF \E u \in DOMAIN users \ {id} : users[u].email = row.email
    THEN "duplicate key value violates unique constraint users_email_key"
    ELSE NoError

\* User.create: the row the INSERT builds; the password is hashed first.
UserCreateRow(fields) ==
    [id |-> users_id_seq + 1,
     name |-> SqlParam(fields.name),
     email |-> SqlParam(fields.email),
     password |-> BcryptHash(fields.password),
     role |-> IF fields.role = Undefined THEN "user" ELSE fields.role]

\* User.update: the row the UPDATE writes.
UserUpdateRow(id, fields) ==
    [users[id] EXCEPT
        !.name = IF fields.name # Undefined THEN fields.name ELSE @,
        !.email = IF fields.email # Undefined THEN fields.email ELSE @,
        !.role = IF fields.role # Undefined THEN fields.role ELSE @]

\* What the queries of the User model return.  The columns of a RETURNING or
\* SELECT list, of those the users rows here carry (the timestamps are not).
Columns(row, cols) == [c \in cols |-> row[c]]
\* User.create: RETURNING id, name, email, role, created_at.
UserCreateReturns(fields) == Columns(UserCreateRow(fields), {"id", "name", "email", "role"})
\* User.findByEmail: SELECT * FROM users WHERE email = $1; rows[0], if any.
UserFindByEmail(email) ==
    IF \E id \in DOMAIN users : users[id].email = email
    THEN <<users[CHOOSE id \in DOMAIN users : users[id].email = email]>>
    ELSE << >>
\* User.findById: SELECT id, name, email, role, created_at; rows[0], if any.
\* Mutant: SELECT *.
UserFindById_Star(id) ==
    IF id \in DOMAIN users THEN <<users[id]>> ELSE << >>
UserFindById(id) ==
    IF id \in DOMAIN users
    THEN <<Columns(users[id], {"id", "name", "email", "role"})>>
    ELSE << >>
\* User.findAll: SELECT id, name, email, role, created_at of every row; the
\* rows, without their order.
UserFindAll == {Columns(users[id], {"id", "name", "email", "role"}) : id \in DOMAIN users}
\* User.update: RETURNING id, name, email, role, updated_at.
UserUpdateReturns(id, fields) ==
    Columns(UserUpdateRow(id, fields), {"id", "name", "email", "role"})

\* User.delete: DELETE FROM users WHERE id = $1, and what ON DELETE CASCADE
\* removes from tasks in the same statement.
\* Mutant: the delete leaves the user's tasks in place.
CascadeIds_None(id) == {}
CascadeIds(id) == {t \in DOMAIN tasks : tasks[t].user_id = id}

\* User.verifyPassword: bcrypt.compare(plainPassword, hashedPassword).
VerifyPassword(plainPassword, hashedPassword) ==
    hashedPassword = BcryptHash(plainPassword)

\* -------------------------------------------------------------- utils/jwt
\* process.env.JWT_SECRET || 'your-super-secret-jwt-key'; a key the server does not hold.
JWT_SECRET == "your-super-secret-jwt-key"
OtherSecret == "another-key"
\* process.env.JWT_EXPIRE || '24h', in ticks of the clock.
JWT_EXPIRE == JwtExpireTicks

\* The HS256 signature of a token's claims: it matches only the key and the
\* claims it was computed from.
HmacSha256(secret, claims) == <<secret, claims>>

\* jwt.sign(payload, secret, {expiresIn}): the payload with iat, the time of
\* signing, and exp = iat + expiresIn, and the signature of these claims.
JwtSign(payload, secret, expiresIn) ==
    LET claims == [id |-> payload.id, role |-> payload.role,
                   iat |-> now, exp |-> now + expiresIn]
    IN  [wellformed |-> TRUE, claims |-> claims,
         signature |-> HmacSha256(secret, claims)]
\* Mutant: the token is signed without expiresIn taken from JWT_EXPIRE, it lasts one tick more.
generateToken_LongLived(payload) == JwtSign(payload, JWT_SECRET, JWT_EXPIRE + 1)
generateToken(payload) == JwtSign(payload, JWT_SECRET, JWT_EXPIRE)

\* A string that is not three dot-separated base64url parts.
MalformedToken ==
    [wellformed |-> FALSE,
     claims |-> [id |-> NoId, role |-> Undefined, iat |-> 0, exp |-> 0],
     signature |-> << >>]

\* What a call does: it returns a value (a sequence: << >> is null) or throws.
Returned(value) == [thrown |-> NoError, value |-> value]
Thrown(error) == [thrown |-> error, value |-> << >>]

\* jwt.verify(token, secret): the token is split and decoded, then the
\* signature is checked, then exp against the clock; it throws on each failure
\* and returns the decoded claims otherwise.
JwtVerify(token, secret) ==
    IF ~token.wellformed
    THEN Thrown("JsonWebTokenError: jwt malformed")
    ELSE IF token.signature # HmacSha256(secret, token.claims)
    THEN Thrown("JsonWebTokenError: invalid signature")
    ELSE IF now >= token.claims.exp
    THEN Thrown("TokenExpiredError: jwt expired")
    ELSE Returned(<<token.claims>>)

\* verifyToken: try { return jwt.verify(token, JWT_SECRET) } catch { return null }
\* Mutant: no try/catch, what jwt.verify throws leaves verifyToken.
verifyToken_NoCatch(token) == JwtVerify(token, JWT_SECRET)
\* Mutant: the decoded user is looked up, a token of a user that is gone is refused.
verifyToken_ChecksUser(token) ==
    LET r == JwtVerify(token, JWT_SECRET)
    IN  IF r.thrown # NoError THEN Returned(<< >>)
        ELSE IF token.claims.id \notin DOMAIN users THEN Returned(<< >>)
        ELSE r
verifyToken(token) ==
    LET r == JwtVerify(token, JWT_SECRET)
    IN  IF r.thrown # NoError THEN Returned(<< >>) ELSE r

\* ------------------------------------------------------------- responses
\* res.status(...).json(...): the status, the envelope and what data carries
\* (a sequence: the task, the tasks, the stats, or nothing).
Response(op, user, id, body, status, message, data, error) ==
    [op |-> op, user |-> user, id |-> id, body |-> body, status |-> status,
     success |-> status < 400, message |-> message, data |-> data, error |-> error]
NoUser == [id |-> NoId, role |-> Undefined]

\* What goes over the wire: which part of the server answered, the status,
\* and the body: a JSON object (at most one) or a text.
Sent(handler, status, json, text) ==
    [handler |-> handler, status |-> status, json |-> json, text |-> text]
\* res.json of a controller: the envelope; Undefined is a key that is absent.
Json(success, message, error) == <<[success |-> success, message |-> message, error |-> error]>>

\* The Dashboard before it is mounted: useState([]) for tasks, null for stats
\* and editingTask (a sequence of at most one value), false for showModal.
Unmounted ==
    [mounted |-> FALSE, user |-> NoUser, tasks |-> << >>, stats |-> << >>,
     showModal |-> FALSE, editingTask |-> << >>]

\* The clients of the rate limiter, by IP address.
Clients == {"ip1", "ip2"}

Init ==
    /\ users = << >>
    /\ users_id_seq = 0
    /\ tasks = << >>
    /\ tasks_id_seq = 0
    /\ now = 0
    /\ tokens = {}
    /\ last = Response("none", NoUser, NoId, NoBody, 0, Undefined, << >>, Undefined)
    /\ jwts = {}
    /\ auth = [called |-> FALSE, token |-> MalformedToken, at |-> 0, result |-> Returned(<< >>)]
    /\ hits = [client \in Clients |-> [totalHits |-> 0, resetTime |-> 0]]
    /\ admitted = [client \in Clients |-> [t \in 0..MaxTime |-> 0]]
    /\ wire = Sent("none", 0, << >>, Undefined)
    /\ net = << >>
    /\ ui = Unmounted

\* ------------------------------------------------------- task controller
\* req.user.role === 'admin'
IsAdmin(user) == user.role = "admin"

\* createTask: Task.create with user_id taken from req.user.id.
createTask(user, body) ==
    LET row == TaskCreateRow([title |-> body.title, description |-> body.description,
                              status |-> body.status, priority |-> body.priority,
                              user_id |-> user.id])
        err == TasksConstraintError(row)
    IN  /\ tasks_id_seq < MaxTasks
        /\ tasks_id_seq' = tasks_id_seq + 1
        /\ IF err = NoError
           THEN /\ tasks' = With(tasks, row.id, row)
                /\ last' = Response("createTask", user, NoId, body, 201,
                                    "Task created successfully", <<row>>, Undefined)
           ELSE /\ tasks' = tasks
                /\ last' = Response("createTask", user, NoId, body, 500,
                                    "Failed to create task", << >>, err)
        /\ UNCHANGED <<users, users_id_seq, now, tokens>>

\* getAllTasks: Task.findAll(userId, isAdmin).
getAllTasks(user) ==
    /\ \E rows \in TaskFindAll(user.id, IsAdmin(user)) :
          last' = Response("getAllTasks", user, NoId, NoBody, 200, Undefined, rows, Undefined)
    /\ UNCHANGED <<users, users_id_seq, tasks, tasks_id_seq, now, tokens>>

\* getTaskById: Task.findById(id, userId, isAdmin); no row is a 404.
GetTaskByIdResponse(user, id) ==
    LET rows == TaskFindById(id, user.id, IsAdmin(user))
    IN  IF rows = << >>
        THEN Response("getTaskById", user, id, NoBody, 404, "Task not found", << >>, Undefined)
        ELSE Response("getTaskById", user, id, NoBody, 200, Undefined, rows, Undefined)
getTaskById(user, id) ==
    /\ last' = GetTaskByIdResponse(user, id)
    /\ UNCHANGED <<users, users_id_seq, tasks, tasks_id_seq, now, tokens>>

\* updateTask: Task.update returns null for an empty SET list and undefined
\* when the UPDATE matched no row; both are the 404 of the controller.
updateTask(user, id, body) ==
    LET fields == [title |-> body.title, description |-> body.description,
                   status |-> body.status, priority |-> body.priority]
        hit == ~UpdatesEmpty(fields) /\ TaskUpdateMatches(id, user.id, IsAdmin(user))
        row == TaskUpdateRow(id, user.id, IsAdmin(user), fields)
        err == IF hit THEN TasksConstraintError(row) ELSE NoError
    IN  /\ IF ~hit
           THEN /\ tasks' = tasks
                /\ last' = Response("updateTask", user, id, body, 404,
                     "Task not found or you do not have permission to update it",
                     << >>, Undefined)
           ELSE IF err # NoError
           THEN /\ tasks' = tasks
                /\ last' = Response("updateTask", user, id, body, 500,
                                    "Failed to update task", << >>, err)
           ELSE /\ tasks' = With(tasks, id, row)
                /\ last' = Response("updateTask", user, id, body, 200,
                                    "Task updated successfully", <<row>>, Undefined)
        /\ UNCHANGED <<users, users_id_seq, tasks_id_seq, now, tokens>>

\* deleteTask: Task.delete(id, userId, isAdmin); no row is a 404.
deleteTask(user, id) ==
    /\ IF TaskDeleteMatches(id, user.id, IsAdmin(user))
       THEN /\ tasks' = Without(tasks, {id})
            /\ last' = Response("deleteTask", user, id, NoBody, 200,
                                "Task deleted successfully", << >>, Undefined)
       ELSE /\ tasks' = tasks
            /\ last' = Response("deleteTask", user, id, NoBody, 404,
                 "Task not found or you do not have permission to delete it",
                 << >>, Undefined)
    /\ UNCHANGED <<users, users_id_seq, tasks_id_seq, now, tokens>>

\* getTaskStats: Task.getStats(userId, isAdmin).
getTaskStats(user) ==
    /\ last' = Response("getTaskStats", user, NoId, NoBody, 200, Undefined,
                        <<TaskGetStats(user.id, IsAdmin(user))>>, Undefined)
    /\ UNCHANGED <<users, users_id_seq, tasks, tasks_id_seq, now, tokens>>

\* ------------------------------------------------- registration and users
\* The token payload generateToken signs: the user's id and role.
Payload(row) == [id |-> row.id, role |-> row.role]

\* POST /auth/register: User.create, then a token for the new user.  A failed
\* INSERT has already drawn its id from the sequence.
Register(fields) ==
    LET row == UserCreateRow(fields)
        ok == UsersConstraintError(row.id, row) = NoError
    IN  /\ users_id_seq < MaxUsers
        /\ users_id_seq' = users_id_seq + 1
        /\ users' = IF ok THEN With(users, row.id, row) ELSE users
        /\ tokens' = IF ok THEN tokens \cup {Payload(row)} ELSE tokens
        /\ last' = Response("register", NoUser, NoId, NoBody, IF ok THEN 201 ELSE 400,
                            Undefined, << >>, Undefined)
        /\ UNCHANGED <<tasks, tasks_id_seq, now>>

\* POST /auth/login: User.findByEmail, User.verifyPassword, then a token
\* with the id and the role the user has now.
Login(email, password) ==
    /\ \E id \in DOMAIN users :
          /\ users[id].email = email
          /\ VerifyPassword(password, users[id].password)
          /\ tokens' = tokens \cup {Payload(users[id])}
    /\ last' = Response("login", NoUser, NoId, NoBody, 200, Undefined, << >>, Undefined)
    /\ UNCHANGED <<users, users_id_seq, tasks, tasks_id_seq, now>>

\* User.update(id, {name, email, role}): null for an empty SET list, undefined
\* when no row has the id (recorded as 404), a throw when the table rejects
\* the row (recorded as 500).
UserUpdate(id, fields) ==
    LET empty == fields.name = Undefined /\ fields.email = Undefined
                   /\ fields.role = Undefined
        row == UserUpdateRow(id, fields)
        ok == ~empty /\ id \in DOMAIN users /\ UsersConstraintError(id, row) = NoError
    IN  /\ users' = IF ok THEN With(users, id, row) ELSE users
        /\ last' = Response("userUpdate", NoUser, id, NoBody,
                            IF ok THEN 200
                            ELSE IF empty \/ id \notin DOMAIN users THEN 404 ELSE 500,
                            Undefined, << >>, Undefined)
        /\ UNCHANGED <<users_id_seq, tasks, tasks_id_seq, now, tokens>>

\* User.delete(id): the user row and, by ON DELETE CASCADE, its tasks; undefined
\* when no row has the id (recorded as 404).
UserDelete(id) ==
    LET ok == id \in DOMAIN users
    IN  /\ users' = IF ok THEN Without(users, {id}) ELSE users
        /\ tasks' = IF ok THEN Without(tasks, CascadeIds(id)) ELSE tasks
        /\ last' = Response("userDelete", NoUser, id, NoBody, IF ok THEN 200 ELSE 404,
                            Undefined, << >>, Undefined)
        /\ UNCHANGED <<users_id_seq, tasks_id_seq, now, tokens>>

\* ------------------------------------------------ tokens and the clock
\* Time passes.
Tick ==
    /\ now < MaxTime
    /\ now' = now + 1
    /\ UNCHANGED <<users, users_id_seq, tasks, tasks_id_seq, tokens, last, jwts, auth,
                   hits, admitted, wire, net, ui>>

\* A token as handed to the client, with the payload generateToken was given.
Issued(payload) == [token |-> generateToken(payload), payload |-> payload, at |-> now]

\* POST /auth/register with the token of its response: generateToken for the
\* user just created.
RegisterToken(fields) ==
    /\ Register(fields)
    /\ jwts' = jwts \cup {Issued(Payload(users'[id])) : id \in DOMAIN users' \ DOMAIN users}
    /\ UNCHANGED <<auth, hits, admitted, wire, net, ui>>

\* POST /auth/login with the token of its response: generateToken for the
\* user as it is now.
LoginToken(email, password) ==
    /\ Cardinality(jwts) < MaxJwts
    /\ Login(email, password)
    /\ jwts' = jwts \cup {Issued(Payload(users[id])) :
                             id \in {u \in DOMAIN users :
                                       /\ users[u].email = email
                                       /\ VerifyPassword(password, users[u].password)}}
    /\ UNCHANGED <<auth, hits, admitted, wire, net, ui>>

\* The tokens a client may present: one it was given, one it was given with
\* the role rewritten, one signed with another key, and a string that is no token.
Presentable ==
    {j.token : j \in jwts}
    \cup {[j.token EXCEPT !.claims.role = "admin"] : j \in jwts}
    \cup {JwtSign(j.payload, OtherSecret, JWT_EXPIRE) : j \in jwts}
    \cup {MalformedToken}

\* The auth middleware: verifyToken on the bearer token of a request.
Authenticate(token) ==
    /\ auth' = [called |-> TRUE, token |-> token, at |-> now, result |-> verifyToken(token)]
    /\ UNCHANGED <<users, users_id_seq, tasks, tasks_id_seq, now, tokens, last, jwts,
                   hits, admitted, wire, net, ui>>

\* -------------------------------------------------------------- server.js
\* rateLimit({ windowMs: 15 * 60 * 1000, max: 100, message: '...' })
windowMs == WindowTicks
max == MaxPerWindow
message == "Too many requests from this IP, please try again later."

\* The store of the limiter counts a client's hits in a window of windowMs;
\* a hit at or after resetTime starts the next window with this hit as its first.
\* Mutant: the hit that starts a window is not counted.
Increment_FirstHitFree(client) ==
    LET c == hits[client]
    IN  IF c.resetTime <= now
        THEN [totalHits |-> 0, resetTime |-> now + windowMs]
        ELSE [totalHits |-> c.totalHits + 1, resetTime |-> c.resetTime]
\* Mutant: a window is one tick long whatever windowMs says.
Increment_ShortWindow(client) ==
    LET c == hits[client]
    IN  IF c.resetTime <= now
        THEN [totalHits |-> 1, resetTime |-> now + 1]
        ELSE [totalHits |-> c.totalHits + 1, resetTime |-> c.resetTime]
Increment(client) ==
    LET c == hits[client]
    IN  IF c.resetTime <= now
        THEN [totalHits |-> 1, resetTime |-> now + windowMs]
        ELSE [totalHits |-> c.totalHits + 1, resetTime |-> c.resetTime]

\* A route under /api/ answers: the response of the controller as JSON.
Routed(handler) ==
    /\ handler
    /\ wire' = Sent("routes", last'.status,
                    Json(last'.success, last'.message, last'.error), Undefined)

\* app.use('*', ...): no route matched, 404 'Route not found'.
RouteNotFound ==
    /\ wire' = Sent("notFound", 404, Json(FALSE, "Route not found", Undefined), Undefined)
    /\ UNCHANGED <<users, users_id_seq, tasks, tasks_id_seq, now, tokens, last>>

\* A route behind the auth middleware, asked without a token that verifies:
\* the middleware answers 401 and no controller runs.
AuthenticationFails ==
    /\ wire' = Sent("authenticate", 401, Json(FALSE, "Unauthorized", Undefined), Undefined)
    /\ UNCHANGED <<users, users_id_seq, tasks, tasks_id_seq, now, tokens, last>>

\* app.use('/api/', limiter) in front of a route: the hit is counted; beyond
\* max the limiter sends 429 with message as a text and the request goes no
\* further, otherwise the route answers.
\* Mutant: the limiter counts and lets every request through.
Limited_NeverRefuses(client, route) ==
    LET c == Increment(client)
    IN  /\ c.totalHits <= max + MaxRefused
        /\ hits' = [hits EXCEPT ![client] = c]
        /\ route
        /\ admitted' = [admitted EXCEPT ![client][now] = @ + 1]
        /\ UNCHANGED <<jwts, auth, net, ui>>
Limited(client, route) ==
    LET c == Increment(client)
    IN  /\ c.totalHits <= max + MaxRefused
        /\ hits' = [hits EXCEPT ![client] = c]
        /\ IF c.totalHits > max
           THEN /\ wire' = Sent("limiter", 429, << >>, message)
                /\ UNCHANGED <<users, users_id_seq, tasks, tasks_id_seq, now, tokens,
                               last, admitted>>
           ELSE /\ route
                /\ admitted' = [admitted EXCEPT ![client][now] = @ + 1]
        /\ UNCHANGED <<jwts, auth, net, ui>>

\* A request outside /api/ does not pass the limiter.
\* Mutant: the limiter is mounted on every path.
Unlimited_Counted(route) ==
    \E client \in Clients :
        LET c == Increment(client)
        IN  /\ c.totalHits <= max + MaxRefused
            /\ hits' = [hits EXCEPT ![client] = c]
            /\ IF c.totalHits > max
               THEN /\ wire' = Sent("limiter", 429, << >>, message)
                    /\ UNCHANGED <<users, users_id_seq, tasks, tasks_id_seq, now, tokens,
                                   last, admitted>>
               ELSE /\ route
                    /\ admitted' = [admitted EXCEPT ![client][now] = @ + 1]
            /\ UNCHANGED <<jwts, auth, net, ui>>
Unlimited(route) ==
    /\ route
    /\ UNCHANGED <<jwts, auth, hits, admitted, net, ui>>

\* app.get('/', ...)
Root ==
    /\ wire' = Sent("root", 200, Json(TRUE, "Task Management API is running", Undefined),
                    Undefined)
    /\ UNCHANGED <<users, users_id_seq, tasks, tasks_id_seq, now, tokens, last>>

\* app.get('/health', ...)
Health ==
    /\ wire' = Sent("health", 200, Json(TRUE, Undefined, Undefined), Undefined)
    /\ UNCHANGED <<users, users_id_seq, tasks, tasks_id_seq, now, tokens, last>>

\* The global error handler: express.json() passes it the error of a body
\* that is not JSON (status 400) before the limiter is reached.
ErrorHandler ==
    /\ wire' = Sent("errorHandler", 400,
                    Json(FALSE, "Unexpected token in JSON", Undefined), Undefined)
    /\ UNCHANGED <<users, users_id_seq, tasks, tasks_id_seq, now, tokens, last>>

\* ---------------------------------------------------- requests in flight
\* A request on its way: sent by the client, then (an update) its statement
\* has read the row it will write, then answered, until the client has the
\* answer.
Request(kind, user, id, body) ==
    [kind |-> kind, phase |-> "sent", user |-> user, id |-> id, body |-> body,
     snapshot |-> << >>, status |-> 0, data |-> << >>]
Answered(req, response) ==
    [req EXCEPT !.phase = "answered", !.status = response.status, !.data = response.data]
Remove(seq, i) == [j \in 1..(Len(seq) - 1) |-> IF j < i THEN seq[j] ELSE seq[j + 1]]

\* A client sends PUT /tasks/:id.
SendUpdate(user, id, body) ==
    /\ Len(net) < MaxInFlight
    /\ net' = Append(net, Request("update", user, id, body))
    /\ UNCHANGED <<users, users_id_seq, tasks, tasks_id_seq, now, tokens, last>>

\* The client has the answer.
Receive(i) ==
    /\ net[i].phase = "answered"
    /\ net' = Remove(net, i)
    /\ UNCHANGED <<users, users_id_seq, tasks, tasks_id_seq, now, tokens, last>>

\* UPDATE tasks SET ... WHERE id = $n [AND user_id = $m] RETURNING * under
\* READ COMMITTED, the isolation level of a pool.query: the statement finds
\* the row in its snapshot, then locks the newest committed version of the
\* row, checks the WHERE clause on it again and applies the SET list to it.
\* The row version the SET list is applied to.
\* Mutant: the SET list is applied to the version of the statement's snapshot.
RowToUpdate_Snapshot(req) == req.snapshot[1]
RowToUpdate(req) == tasks[req.id]
UpdateOf(row, fields) ==
    [row EXCEPT
        !.title = IF fields.title # Undefined THEN fields.title ELSE @,
        !.description = IF fields.description # Undefined THEN fields.description ELSE @,
        !.status = IF fields.status # Undefined THEN fields.status ELSE @,
        !.priority = IF fields.priority # Undefined THEN fields.priority ELSE @,
        !.updated_at = now]

NotFoundUpdate(req) ==
    Response("updateTask", req.user, req.id, req.body, 404,
             "Task not found or you do not have permission to update it", << >>, Undefined)

\* updateTask, first part: Task.update returns null for an empty SET list;
\* otherwise the statement starts and finds its row, or none.
UpdateScan(i) ==
    LET req == net[i]
    IN  /\ req.kind = "update"
        /\ req.phase = "sent"
        /\ IF UpdatesEmpty(req.body)
              \/ ~TaskUpdateMatches(req.id, req.user.id, IsAdmin(req.user))
           THEN /\ last' = NotFoundUpdate(req)
                /\ net' = [net EXCEPT ![i] = Answered(req, last')]
           ELSE /\ net' = [net EXCEPT ![i].phase = "scanned",
                                      ![i].snapshot = <<tasks[req.id]>>]
                /\ last' = last
        /\ UNCHANGED <<users, users_id_seq, tasks, tasks_id_seq, now, tokens>>

\* updateTask, second part: the statement writes the row and commits, or finds
\* that the row is gone or that the table rejects the new row; the controller
\* answers.
UpdateWrite(i) ==
    LET req == net[i]
        hit == TaskUpdateMatches(req.id, req.user.id, IsAdmin(req.user))
        row == UpdateOf(RowToUpdate(req), req.body)
        err == IF hit THEN TasksConstraintError(row) ELSE NoError
    IN  /\ req.kind = "update"
        /\ req.phase = "scanned"
        /\ IF ~hit
           THEN /\ tasks' = tasks
                /\ last' = NotFoundUpdate(req)
           ELSE IF err # NoError
           THEN /\ tasks' = tasks
                /\ last' = Response("updateTask", req.user, req.id, req.body, 500,
                                    "Failed to update task", << >>, err)
           ELSE /\ tasks' = With(tasks, req.id, row)
                /\ last' = Response("updateTask", req.user, req.id, req.body, 200,
                                    "Task updated successfully", <<row>>, Undefined)
        /\ net' = [net EXCEPT ![i] = Answered(req, last')]
        /\ UNCHANGED <<users, users_id_seq, tasks_id_seq, now, tokens>>

\* -------------------------------------------------------------- Dashboard
\* The Dashboard page of the React client.  Each call of taskService is a
\* request in net; what follows its await runs when the answer is received,
\* and answers are received in any order.  The success and error banners, the
\* loading flag and the filter are left out.
\* fetchTasks(); fetchStats(): the two requests, sent one after the other.
Fetches(user) ==
    <<Request("getTasks", user, NoId, NoBody), Request("getStats", user, NoId, NoBody)>>

\* useEffect(() => { fetchTasks(); fetchStats(); }, []) for the user logged in.
Mount(user) ==
    /\ ~ui.mounted
    /\ Len(net) + 2 <= MaxUiInFlight
    /\ ui' = [Unmounted EXCEPT !.mounted = TRUE, !.user = user]
    /\ net' = net \o Fetches(user)
    /\ UNCHANGED <<users, users_id_seq, tasks, tasks_id_seq, now, tokens, last>>

\* onClick of the New Task button: setShowModal(true).  The button and the
\* task cards are used while the modal is not over them.
NewTaskClick ==
    /\ ui.mounted
    /\ ~ui.showModal
    /\ ui' = [ui EXCEPT !.showModal = TRUE]
    /\ UNCHANGED <<users, users_id_seq, tasks, tasks_id_seq, now, tokens, last, net>>

\* handleEditTask(task), from the card of a displayed task.
handleEditTask(i) ==
    /\ ui.mounted
    /\ ~ui.showModal
    /\ i \in DOMAIN ui.tasks
    /\ ui' = [ui EXCEPT !.editingTask = <<ui.tasks[i]>>, !.showModal = TRUE]
    /\ UNCHANGED <<users, users_id_seq, tasks, tasks_id_seq, now, tokens, last, net>>

\* handleCloseModal, the onClose of the modal.
handleCloseModal ==
    /\ ui.showModal
    /\ ui' = [ui EXCEPT !.showModal = FALSE, !.editingTask = << >>]
    /\ UNCHANGED <<users, users_id_seq, tasks, tasks_id_seq, now, tokens, last, net>>

\* handleCreateTask(taskData), the onSave of the modal while editingTask is
\* null, up to its await.
handleCreateTask(taskData) ==
    /\ ui.showModal
    /\ ui.editingTask = << >>
    /\ Len(net) + 2 <= MaxUiInFlight
    /\ net' = Append(net, Request("createTask", ui.user, NoId, taskData))
    /\ UNCHANGED <<users, users_id_seq, tasks, tasks_id_seq, now, tokens, last, ui>>

\* handleUpdateTask(taskData), the onSave of the modal while editingTask is
\* set, up to its await: taskService.updateTask(editingTask.id, taskData).
handleUpdateTask(taskData) ==
    /\ ui.showModal
    /\ ui.editingTask # << >>
    /\ Len(net) + 2 <= MaxUiInFlight
    /\ net' = Append(net, Request("updateTask", ui.user, ui.editingTask[1].id, taskData))
    /\ UNCHANGED <<users, users_id_seq, tasks, tasks_id_seq, now, tokens, last, ui>>

\* handleDeleteTask(taskId), from the card of a displayed task and confirmed,
\* up to its await.
handleDeleteTask(i) ==
    /\ ui.mounted
    /\ ~ui.showModal
    /\ i \in DOMAIN ui.tasks
    /\ Len(net) + 2 <= MaxUiInFlight
    /\ net' = Append(net, Request("deleteTask", ui.user, ui.tasks[i].id, NoBody))
    /\ UNCHANGED <<users, users_id_seq, tasks, tasks_id_seq, now, tokens, last, ui>>

\* The server answers a request of the Dashboard: the controller of its route.
Serve(i) ==
    LET req == net[i]
    IN  /\ req.phase = "sent"
        /\ CASE req.kind = "getTasks" -> getAllTasks(req.user)
             [] req.kind = "getStats" -> getTaskStats(req.user)
             [] req.kind = "createTask" -> createTask(req.user, req.body)
             [] req.kind = "updateTask" -> updateTask(req.user, req.id, req.body)
             [] req.kind = "deleteTask" -> deleteTask(req.user, req.id)
             [] OTHER -> FALSE
        /\ net' = [net EXCEPT ![i] = Answered(req, last')]
        /\ ui' = ui

\* The answer of a request arrives and the code after the await runs: the
\* try branch for a 2xx, the catch branch otherwise.
Continue(i) ==
    LET req == net[i]
        ok == req.status < 400
        rest == Remove(net, i)
    IN  /\ req.phase = "answered"
        /\ req.kind \in {"getTasks", "getStats", "createTask", "updateTask", "deleteTask"}
        /\ ui' = CASE ok /\ req.kind = "getTasks" -> [ui EXCEPT !.tasks = req.data]
                   [] ok /\ req.kind = "getStats" -> [ui EXCEPT !.stats = req.data]
                   [] ok /\ req.kind = "createTask" -> [ui EXCEPT !.showModal = FALSE]
                   [] ok /\ req.kind = "updateTask" ->
                        [ui EXCEPT !.showModal = FALSE, !.editingTask = << >>]
                   [] OTHER -> ui
        /\ net' = IF ok /\ req.kind \in {"createTask", "updateTask", "deleteTask"}
                  THEN rest \o Fetches(ui.user)
                  ELSE rest
        /\ Len(net') <= MaxUiInFlight
        /\ UNCHANGED <<users, users_id_seq, tasks, tasks_id_seq, now, tokens, last>>

\* -------------------------------------------------------- specifications
\* Access control: two accounts, role changes, account deletion, stale tokens.
Next ==
    /\ UNCHANGED <<jwts, auth, hits, admitted, wire, net, ui>>
    /\ \/ \E user \in tokens, body \in AccessCreateBodies : createTask(user, body)
       \/ \E user \in tokens : getAllTasks(user)
       \/ \E user \in tokens, id \in TaskIds : getTaskById(user, id)
       \/ \E user \in tokens, id \in TaskIds, body \in AccessUpdateBodies :
             updateTask(user, id, body)
       \/ \E user \in tokens, id \in TaskIds : deleteTask(user, id)
       \/ \E user \in tokens : getTaskStats(user)
       \/ \E fields \in UserFields : Register(fields)
       \/ \E email \in Emails, password \in Passwords : Login(email, password)
       \/ \E id \in UserIds, fields \in RoleUpdates : UserUpdate(id, fields)
       \/ \E id \in UserIds : UserDelete(id)

Spec == Init /\ [][Next]_vars

\* Field semantics of create and update: one account, every subset of fields.
NextFields ==
    /\ UNCHANGED <<jwts, auth, hits, admitted, wire, net, ui>>
    /\ \/ \E fields \in OneUserFields : Register(fields)
       \/ \E user \in tokens, body \in FieldCreateBodies : createTask(user, body)
       \/ \E user \in tokens, id \in TaskIds, body \in FieldUpdateBodies :
             updateTask(user, id, body)
       \/ \E user \in tokens, id \in TaskIds : getTaskById(user, id)

SpecFields == Init /\ [][NextFields]_vars

\* Authentication: accounts that register as 'user', log in, change (role,
\* name and email) and are deleted while time passes and tokens are presented.
AuthUserFields == [name : Names, email : Emails, password : Passwords, role : {Undefined}]
ProfileUpdates ==
    {[name |-> Undefined, email |-> Undefined, role |-> "admin"],
     [name |-> Undefined, email |-> Undefined, role |-> "user"],
     [name |-> "n2", email |-> "e2", role |-> Undefined]}
NextAuth ==
    \/ \E fields \in AuthUserFields : RegisterToken(fields)
    \/ \E email \in Emails, password \in Passwords : LoginToken(email, password)
    \/ \E id \in UserIds, fields \in ProfileUpdates :
          UserUpdate(id, fields) /\ UNCHANGED <<jwts, auth, hits, admitted, wire, net, ui>>
    \/ \E id \in UserIds : UserDelete(id) /\ UNCHANGED <<jwts, auth, hits, admitted, wire, net, ui>>
    \/ \E token \in Presentable : Authenticate(token)
    \/ Tick

SpecAuth == Init /\ [][NextAuth]_vars

\* The server: requests of two clients pass the limiter to the routes while
\* time passes; one account, a create the table rejects, a fetch of a task
\* that does not exist, a path no route has.
ServerUserFields == [name : Names, email : {"e1"}, password : Passwords, role : {Undefined}]
ServerCreateBodies ==
    {Body(Undefined, Undefined, Undefined, Undefined, NoId)}
NextServer ==
    \/ \E client \in Clients, fields \in ServerUserFields :
          Limited(client, Routed(Register(fields)))
    \/ \E client \in Clients, user \in tokens, body \in ServerCreateBodies :
          Limited(client, Routed(createTask(user, body)))
    \/ \E client \in Clients, user \in tokens, id \in TaskIds :
          Limited(client, Routed(getTaskById(user, id)))
    \/ \E client \in Clients : Limited(client, RouteNotFound)
    \/ Unlimited(RouteNotFound)
    \/ Unlimited(Health)
    \/ Unlimited(ErrorHandler)
    \/ Tick

SpecServer == Init /\ [][NextServer]_vars

\* Ordering of the list: users and administrators create tasks at different
\* times, update them and list them.
OrderCreateBodies == {Body("t1", Undefined, Undefined, Undefined, NoId)}
OrderUpdateBodies == {Body(Undefined, Undefined, "completed", Undefined, NoId)}
NextOrder ==
    /\ UNCHANGED <<jwts, auth, hits, admitted, wire, net, ui>>
    /\ \/ \E fields \in UserFields : Register(fields)
       \/ \E user \in tokens, body \in OrderCreateBodies : createTask(user, body)
       \/ \E user \in tokens, id \in TaskIds, body \in OrderUpdateBodies :
             updateTask(user, id, body)
       \/ \E user \in tokens : getAllTasks(user)
       \/ Tick

SpecOrder == Init /\ [][NextOrder]_vars

\* The limiter in front of the routes: requests of two clients that change
\* the stores, that fail authentication and that match no route, and requests
\* outside /api/, while time passes.
NextLimiter ==
    \/ \E client \in Clients, fields \in ServerUserFields :
          Limited(client, Routed(Register(fields)))
    \/ \E client \in Clients, user \in tokens, body \in OrderCreateBodies :
          Limited(client, Routed(createTask(user, body)))
    \/ \E client \in Clients : Limited(client, AuthenticationFails)
    \/ \E client \in Clients : Limited(client, RouteNotFound)
    \/ Unlimited(Root)
    \/ Unlimited(Health)
    \/ Tick

SpecLimiter == Init /\ [][NextLimiter]_vars

\* Concurrent updates: the statements of the updates in flight interleave
\* with each other and with creates and deletes.
ConcurrentUpdateBodies ==
    {Body("t2", Undefined, Undefined, Undefined, NoId),
     Body("t3", Undefined, "completed", Undefined, NoId)}
NextConcurrent ==
    /\ UNCHANGED <<jwts, auth, hits, admitted, wire, ui>>
    /\ \/ \E fields \in OneUserFields : Register(fields) /\ net' = net
       \/ \E user \in tokens, body \in OrderCreateBodies :
             createTask(user, body) /\ net' = net
       \/ \E user \in tokens, id \in TaskIds : deleteTask(user, id) /\ net' = net
       \/ \E user \in tokens, id \in TaskIds, body \in ConcurrentUpdateBodies :
             SendUpdate(user, id, body)
       \/ \E i \in DOMAIN net : UpdateScan(i)
       \/ \E i \in DOMAIN net : UpdateWrite(i)
       \/ \E i \in DOMAIN net : Receive(i)

SpecConcurrent == Init /\ [][NextConcurrent]_vars

\* The Dashboard of one user against the server: the user's clicks, the
\* server's answers and their arrival, in every order.
UiCreateData == {Body("t1", Undefined, Undefined, Undefined, NoId)}
UiUpdateData == {Body(Undefined, Undefined, "completed", Undefined, NoId)}
NextDashboard ==
    /\ UNCHANGED <<jwts, auth, hits, admitted, wire>>
    /\ \/ \E fields \in ServerUserFields : Register(fields) /\ UNCHANGED <<net, ui>>
       \/ \E user \in tokens : Mount(user)
       \/ NewTaskClick
       \/ \E i \in 1..MaxTasks : handleEditTask(i)
       \/ handleCloseModal
       \/ \E taskData \in UiCreateData : handleCreateTask(taskData)
       \/ \E taskData \in UiUpdateData : handleUpdateTask(taskData)
       \/ \E i \in 1..MaxTasks : handleDeleteTask(i)
       \/ \E i \in DOMAIN net : Serve(i)
       \/ \E i \in DOMAIN net : Continue(i)

SpecDashboard == Init /\ [][NextDashboard]_vars

\* ------------------------------------------------------------------ claims
TaskFields == {"title", "description", "status", "priority"}
Ids(rows) == {rows[i].id : i \in DOMAIN rows}
OwnedBy(userId) == {id \in DOMAIN tasks : tasks[id].user_id = userId}

\* C1: list called by a principal whose role is not 'admin' returns exactly the
\* tasks whose user_id is the principal's id, each once and none of another
\* owner; called by an admin principal it returns every task in the store.
C1_ListScope ==
    last.op = "getAllTasks" =>
        /\ Len(last.data) = Cardinality(Ids(last.data))
        /\ \A i \in DOMAIN last.data :
              /\ last.data[i].id \in DOMAIN tasks
              /\ \A f \in TaskFields \cup {"id", "user_id"} :
                    last.data[i][f] = tasks[last.data[i].id][f]
        /\ IF last.user.role = "admin"
           THEN Ids(last.data) = DOMAIN tasks
           ELSE /\ Ids(last.data) = OwnedBy(last.user.id)
                /\ \A i \in DOMAIN last.data : last.data[i].user_id = last.user.id
\* A non-admin listed its own task while another user's task was in the store.
C1_Witness ==
    /\ last.op = "getAllTasks"
    /\ last.user.role # "admin"
    /\ Len(last.data) >= 1
    /\ \E id \in DOMAIN tasks : tasks[id].user_id # last.user.id

\* A step that answers a non-admin's update or delete of another user's task.
C2_ForeignWriteStep ==
    (/\ last'.op \in {"updateTask", "deleteTask"}
     /\ last'.user.role # "admin"
     /\ last'.id \in DOMAIN tasks
     /\ tasks[last'.id].user_id # last'.user.id)
    => (last'.status = 404 /\ last'.success = FALSE /\ tasks' = tasks)
\* C2: an update or delete by a non-admin principal B of a task owned by a
\* different user A answers 404 and leaves the task store as it was.
C2_ForeignWriteRefused == [][C2_ForeignWriteStep]_vars
\* B sent a non-empty update for A's task and got the 404.
C2_Witness ==
    /\ last.op = "updateTask"
    /\ last.user.role # "admin"
    /\ ~UpdatesEmpty(last.body)
    /\ last.id \in DOMAIN tasks
    /\ tasks[last.id].user_id # last.user.id
    /\ last.status = 404

\* What the client sees of a response.
View(r) ==
    [status |-> r.status, success |-> r.success, message |-> r.message,
     data |-> r.data, error |-> r.error]
\* C3: getTaskById by a non-admin principal for another user's task answers 404
\* 'Task not found' with no task data, the response it gives for an id that no
\* task has; for the owner or an admin it answers 200 with that task.
C3_GetTaskById ==
    (last.op = "getTaskById" /\ last.id \in DOMAIN tasks) =>
        IF last.user.role = "admin" \/ tasks[last.id].user_id = last.user.id
        THEN /\ last.status = 200
             /\ Len(last.data) = 1
             /\ \A f \in TaskFields \cup {"id", "user_id"} :
                   last.data[1][f] = tasks[last.id][f]
        ELSE /\ last.status = 404
             /\ last.message = "Task not found"
             /\ last.data = << >>
             /\ View(last) = View(GetTaskByIdResponse(last.user, tasks_id_seq + 1))
\* A non-admin asked for another user's task and got the 404.
C3_Witness ==
    /\ last.op = "getTaskById"
    /\ last.user.role # "admin"
    /\ last.id \in DOMAIN tasks
    /\ tasks[last.id].user_id # last.user.id
    /\ last.status = 404

\* C4: for an existing task and a principal who is its owner or an admin,
\* update never answers NotFound, whatever subset of the fields is supplied.
C4_NoNotFoundForPermitted ==
    (/\ last.op = "updateTask"
     /\ last.id \in DOMAIN tasks
     /\ (last.user.role = "admin" \/ tasks[last.id].user_id = last.user.id))
    => last.status # 404

\* A step that answers an update with 200, and a fetch that answers 200.
C5_UpdateStep ==
    (last'.op = "updateTask" /\ last'.status = 200) =>
        /\ last'.id \in DOMAIN tasks
        /\ DOMAIN tasks' = DOMAIN tasks
        /\ \A f \in TaskFields :
              tasks'[last'.id][f] =
                  IF last'.body[f] # Undefined THEN last'.body[f] ELSE tasks[last'.id][f]
        /\ \A f \in {"id", "user_id", "created_at"} :
              tasks'[last'.id][f] = tasks[last'.id][f]
        /\ \A t \in DOMAIN tasks \ {last'.id} : tasks'[t] = tasks[t]
        /\ last'.data = <<tasks'[last'.id]>>
C5_FetchReturnsStored ==
    (last.op = "getTaskById" /\ last.status = 200) =>
        /\ last.id \in DOMAIN tasks
        /\ \A f \in TaskFields \cup {"id", "user_id", "created_at"} :
              last.data[1][f] = tasks[last.id][f]
\* C5: a successful update that supplies a subset S of the four fields sets
\* exactly the fields in S to the supplied values and leaves the other fields,
\* the id, the owner, the creation time and every other task as they were; a
\* fetch then returns the stored row, so create, update {status}, fetch shows
\* the original title, description and priority with the new status.
C5_PartialUpdate == [][C5_UpdateStep]_vars /\ []C5_FetchReturnsStored
\* An update of the status alone went through on a task that keeps its title
\* and the default priority.
C5_Witness ==
    /\ last.op = "updateTask"
    /\ last.status = 200
    /\ last.body.status = "completed"
    /\ last.body.title = Undefined
    /\ last.body.description = Undefined
    /\ last.body.priority = Undefined
    /\ tasks[last.id].title = "t1"
    /\ tasks[last.id].priority = "medium"
    /\ tasks[last.id].status = "completed"

\* What any step may do to the owners of tasks.
C6_OwnerStep ==
    /\ tasks_id_seq' >= tasks_id_seq
    /\ \A id \in DOMAIN tasks \cap DOMAIN tasks' :
          tasks'[id].user_id = tasks[id].user_id
    /\ \A id \in DOMAIN tasks' \ DOMAIN tasks :
          /\ id > tasks_id_seq
          /\ id <= tasks_id_seq'
          /\ last'.op = "createTask"
          /\ tasks'[id].user_id = last'.user.id
\* C6: the owner of a task is fixed at creation: no request changes the
\* user_id of a task that exists, a task appears only by a create, under a
\* fresh id and with the creating principal as owner.
C6_OwnerFixed == [][C6_OwnerStep]_vars
\* An administrator updated another user's task, which still has its owner.
C6_Witness ==
    /\ last.op = "updateTask"
    /\ last.status = 200
    /\ last.user.role = "admin"
    /\ tasks[last.id].user_id # last.user.id

\* The foreign key, and a create with the token of a deleted user.
C7_OwnersExist ==
    \A id \in DOMAIN tasks : tasks[id].user_id # NoId /\ tasks[id].user_id \in DOMAIN users
C7_StaleCreateStep ==
    (last'.op = "createTask" /\ last'.user.id \notin DOMAIN users) =>
        (last'.status = 500 /\ tasks' = tasks)
\* C7: every task has one owner and that owner is a row of the users table; a
\* create by a principal whose user row is gone fails and inserts no row.
C7_ReferentialIntegrity == []C7_OwnersExist /\ [][C7_StaleCreateStep]_vars
\* A deleted user's token was used to create a well-formed task.
C7_Witness ==
    /\ last.op = "createTask"
    /\ last.user.id \notin DOMAIN users
    /\ last.body.title = "t1"
    /\ last.status = 500

\* A step that deletes a user.
C8_UserDeleteStep ==
    (last'.op = "userDelete" /\ last'.status = 200) =>
        /\ last'.id \in DOMAIN users
        /\ DOMAIN users' = DOMAIN users \ {last'.id}
        /\ \A u \in DOMAIN users' : users'[u] = users[u]
        /\ DOMAIN tasks' = {t \in DOMAIN tasks : tasks[t].user_id # last'.id}
        /\ \A t \in DOMAIN tasks' : tasks'[t] = tasks[t]
        /\ FindAllIds(NoId, TRUE)' = {t \in DOMAIN tasks : tasks[t].user_id # last'.id}
\* C8: deleting user U removes, in the same step, every task U owns and no
\* other: the tasks left, and what an administrator's list selects, are the
\* other users' tasks, unchanged.
C8_Cascade == [][C8_UserDeleteStep]_vars
\* A user was deleted and another user's task is still in the store.
C8_Witness ==
    /\ last.op = "userDelete"
    /\ last.status = 200
    /\ last.id \notin DOMAIN users
    /\ tasks_id_seq = MaxTasks
    /\ Cardinality(DOMAIN tasks) = 1

\* The values the columns of the tasks table accept from a request body.
Accepted(body) ==
    /\ body.title # Null
    /\ body.status \in {Undefined, Null} \cup Statuses
    /\ body.priority \in {Undefined, Null} \cup Priorities

\* A step that answers an administrator's request for an existing task.
C9_AdminStep ==
    (last'.user.role = "admin" /\ last'.id \in DOMAIN tasks) =>
        /\ last'.op = "getTaskById" =>
              /\ last'.status = 200
              /\ \A f \in TaskFields \cup {"id", "user_id"} :
                    last'.data[1][f] = tasks[last'.id][f]
        /\ (last'.op = "updateTask" /\ ~UpdatesEmpty(last'.body)) =>
              IF Accepted(last'.body)
              THEN /\ last'.status = 200
                   /\ last'.data = <<tasks'[last'.id]>>
                   /\ \A f \in TaskFields :
                         last'.body[f] # Undefined => tasks'[last'.id][f] = last'.body[f]
              ELSE last'.status = 500
        /\ last'.op = "deleteTask" =>
              /\ last'.status = 200
              /\ last'.id \notin DOMAIN tasks'
\* C9: an administrator is never refused on an existing task, whoever owns it:
\* getTaskById returns the task, delete removes it, and an update with at
\* least one field returns the updated task when the table accepts the values
\* (otherwise it is the table's error, a 500, and never a 404).
C9_AdminAccess == [][C9_AdminStep]_vars
\* An administrator fetched a task that another user owns.
C9_Witness ==
    /\ last.op = "getTaskById"
    /\ last.status = 200
    /\ last.user.role = "admin"
    /\ tasks[last.id].user_id # last.user.id

\* A step that answers a create.
C10_CreateStep ==
    last'.op = "createTask" =>
        LET b == last'.body
            new == tasks_id_seq + 1
            ok == /\ b.title # Undefined
                  /\ Accepted(b)
                  /\ last'.user.id \in DOMAIN users
        IN  /\ \A t \in DOMAIN tasks : t \in DOMAIN tasks' /\ tasks'[t] = tasks[t]
            /\ IF ok
               THEN /\ last'.status = 201
                    /\ new \notin DOMAIN tasks
                    /\ DOMAIN tasks' = DOMAIN tasks \cup {new}
                    /\ tasks'[new].id = new
                    /\ tasks'[new].user_id = last'.user.id
                    /\ tasks'[new].title = b.title
                    /\ tasks'[new].status =
                          IF b.status = Undefined THEN "pending" ELSE b.status
                    /\ tasks'[new].priority =
                          IF b.priority = Undefined THEN "medium" ELSE b.priority
                    /\ last'.data = <<tasks'[new]>>
               ELSE /\ last'.status = 500
                    /\ tasks' = tasks
\* C10: a create either fails and leaves the store as it was, or inserts
\* exactly one task: owned by the calling principal whatever the body says
\* (its user_id is ignored), with status 'pending' when the body has no status
\* and priority 'medium' when it has no priority.  It inserts whenever the body
\* has a title and values the table accepts and the principal's user exists.
\* No existing task is changed.
C10_Create == [][C10_CreateStep]_vars
\* A second task was created from a body naming another owner and no status or
\* priority: it belongs to the caller and is pending, medium.
C10_Witness ==
    /\ last.op = "createTask"
    /\ last.status = 201
    /\ last.body.user_id # NoId
    /\ last.body.user_id # last.user.id
    /\ last.body.status = Undefined
    /\ last.body.priority = Undefined
    /\ Cardinality(DOMAIN tasks) = 2
    /\ tasks[tasks_id_seq].user_id = last.user.id
    /\ tasks[tasks_id_seq].status = "pending"
    /\ tasks[tasks_id_seq].priority = "medium"

\* Every principal a token can carry.
Principals == [id : UserIds, role : Roles]
\* The rows among ids whose status is st.
CountStatus(ids, st) == Cardinality({id \in ids : tasks[id].status = st})
\* What stats must report for a principal, counted over the rows list selects.
ListCounts(user) ==
    LET ids == FindAllIds(user.id, IsAdmin(user))
    IN  [total |-> Cardinality(ids), pending |-> CountStatus(ids, "pending"),
         in_progress |-> CountStatus(ids, "in_progress"),
         completed |-> CountStatus(ids, "completed")]
\* C11: for every principal, stats counts the tasks list returns: total is the
\* number of listed tasks and pending, in_progress and completed are the
\* numbers of listed tasks with that status; a getTaskStats response carries
\* these counts and a getAllTasks response has that many rows.
C11_StatsScope ==
    /\ \A user \in Principals : TaskGetStats(user.id, IsAdmin(user)) = ListCounts(user)
    /\ last.op = "getTaskStats" =>
          /\ last.status = 200
          /\ last.data = <<ListCounts(last.user)>>
    /\ last.op = "getAllTasks" =>
          Len(last.data) = TaskGetStats(last.user.id, IsAdmin(last.user)).total
\* A non-admin asked for stats: one completed task of its own is counted while
\* another user's task is in the store.
C11_Witness ==
    /\ last.op = "getTaskStats"
    /\ last.user.role # "admin"
    /\ last.data[1].total = 1
    /\ last.data[1].completed = 1
    /\ Cardinality(DOMAIN tasks) = 2

\* C12: every stored task has status in {pending, in_progress, completed} and
\* priority in {low, medium, high}; a create or update that would store any
\* other value, NULL included, fails and leaves the store unchanged.
C12_StatusAndPriorityInRange ==
    \A id \in DOMAIN tasks :
        /\ tasks[id].status \in Statuses
        /\ tasks[id].priority \in Priorities

\* The id and role a successful verifyToken returned, else no principal.
Principal(result) ==
    IF result.value = << >> THEN NoUser
    ELSE [id |-> result.value[1].id, role |-> result.value[1].role]
\* C13: verifyToken on a token made by generateToken returns the id and role
\* of the payload at every time before its expiry, JWT_EXPIRE after it was
\* issued, and null at every time from the expiry on.
C13_RoundTrip ==
    /\ \A j \in jwts :
          IF now < j.at + JWT_EXPIRE
          THEN /\ verifyToken(j.token).thrown = NoError
               /\ Principal(verifyToken(j.token)) = j.payload
          ELSE verifyToken(j.token) = Returned(<< >>)
    /\ \A j \in jwts :
          (auth.called /\ auth.token = j.token) =>
              IF auth.at < j.at + JWT_EXPIRE
              THEN Principal(auth.result) = j.payload
              ELSE auth.result = Returned(<< >>)
\* A token verified in the last tick before its expiry, and one refused at the
\* tick of its expiry.
C13_Witness ==
    /\ auth.called
    /\ \E j \in jwts :
          /\ auth.token = j.token
          /\ auth.at = j.at + JWT_EXPIRE - 1
          /\ Principal(auth.result) = j.payload
    /\ \E j \in jwts : now = j.at + JWT_EXPIRE /\ verifyToken(j.token) = Returned(<< >>)

\* What jwt.verify does with a token now.
Cause(token) == JwtVerify(token, JWT_SECRET).thrown
\* C14: verifyToken never throws; for a malformed token, a token with a wrong
\* signature and an expired token it returns the same value, null.
C14_FailureIsNull ==
    /\ \A token \in Presentable :
          /\ verifyToken(token).thrown = NoError
          /\ Cause(token) # NoError => verifyToken(token) = Returned(<< >>)
    /\ auth.called =>
          /\ auth.result.thrown = NoError
          /\ (auth.at = now /\ Cause(auth.token) # NoError) => auth.result = Returned(<< >>)
\* An expired token was just refused with null while a malformed token and one
\* with a wrong signature, which get the same null, can be presented.
C14_Witness ==
    /\ auth.called
    /\ auth.at = now
    /\ Cause(auth.token) = "TokenExpiredError: jwt expired"
    /\ auth.result = Returned(<< >>)
    /\ \E t1, t2 \in Presentable :
          /\ Cause(t1) = "JsonWebTokenError: jwt malformed"
          /\ Cause(t2) = "JsonWebTokenError: invalid signature"
          /\ verifyToken(t1) = auth.result
          /\ verifyToken(t2) = auth.result

\* C15: verification reads the token, the key and the clock only: a token made
\* for a user verifies with the id and role it was made with until its expiry,
\* whether or not that user still exists and whatever role the user has now.
C15_NoRevocation ==
    /\ \A j \in jwts :
          now < j.at + JWT_EXPIRE =>
              /\ Principal(verifyToken(j.token)) = j.payload
              /\ verifyToken(j.token) = JwtVerify(j.token, JWT_SECRET)
    /\ \A j \in jwts :
          (auth.called /\ auth.token = j.token /\ auth.at < j.at + JWT_EXPIRE) =>
              Principal(auth.result) = j.payload
\* A token was accepted as 'user' 1 after user 1 was deleted, and another
\* unexpired token says 'user' for a user who is an admin now.
C15_Witness ==
    /\ auth.called
    /\ auth.at = now
    /\ auth.result.value # << >>
    /\ Principal(auth.result).id \notin DOMAIN users
    /\ \E j \in jwts :
          /\ now < j.at + JWT_EXPIRE
          /\ j.payload.id \in DOMAIN users
          /\ users[j.payload.id].role # j.payload.role

\* The /api/ requests of a client that were passed on at the times from..to.
RECURSIVE AdmittedIn(_, _, _)
AdmittedIn(client, from, to) ==
    IF from > to THEN 0
    ELSE (IF from \in 0..MaxTime THEN admitted[client][from] ELSE 0)
         + AdmittedIn(client, from + 1, to)
\* When the window a request of the client falls in began: the running window
\* of the limiter, or now when that one is over.
WindowStart(client) ==
    IF hits[client].resetTime > now THEN hits[client].resetTime - windowMs ELSE now
\* A step in which the limiter counts a request of a client.
C16_LimiterStep ==
    \A client \in Clients :
        hits'[client] # hits[client] =>
            IF AdmittedIn(client, WindowStart(client), now) < max
            THEN /\ wire'.handler \in {"routes", "notFound"}
                 /\ wire'.status # 429
                 /\ AdmittedIn(client, WindowStart(client), now)' =
                        AdmittedIn(client, WindowStart(client), now) + 1
            ELSE /\ wire'.handler = "limiter"
                 /\ wire'.status = 429
                 /\ admitted' = admitted
                 /\ UNCHANGED <<users, users_id_seq, tasks, tasks_id_seq, tokens, last>>
\* C16: per client, a request under /api/ is passed on to the routes while
\* fewer than max requests of that client were passed on in the running
\* window of windowMs; the next request in that window is answered 429 by the
\* limiter, no route handler runs and nothing of the stores changes.
C16_RateLimit == [][C16_LimiterStep]_vars
\* A client was just refused with 429 after max of its requests were passed on
\* in the window, while the other client is below max.
C16_Witness ==
    /\ wire.status = 429
    /\ \E client \in Clients :
          /\ hits[client].totalHits = max + 1
          /\ hits[client].resetTime > now
          /\ AdmittedIn(client, hits[client].resetTime - windowMs, now) = max
          /\ \E other \in Clients \ {client} :
                /\ hits[other].resetTime > now
                /\ hits[other].totalHits = 1

\* C17: the rate ceiling is a sliding window: in every interval of windowMs,
\* wherever it starts, at most max requests of a client under /api/ are passed on.
C17_SlidingWindow ==
    \A client \in Clients, start \in 0..MaxTime :
        AdmittedIn(client, start, start + windowMs - 1) <= max
\* C17, amended: the ceiling holds per window of the limiter, which begins
\* with a client's first request and lasts windowMs: at most max requests of
\* the client are passed on in one window, and an interval of windowMs, which
\* may lie across two windows, holds at most 2 * max of them.
C17_FixedWindow ==
    \A client \in Clients :
        /\ AdmittedIn(client, hits[client].resetTime - windowMs,
                      hits[client].resetTime - 1) <= max
        /\ \A start \in 0..MaxTime :
              AdmittedIn(client, start, start + windowMs - 1) <= 2 * max
\* More than max requests of one client were passed on within windowMs: the
\* last of one window and the first of the next.
C17_Witness ==
    \E client \in Clients, start \in 0..MaxTime :
        /\ AdmittedIn(client, start, start + windowMs - 1) > max
        /\ hits[client].resetTime > start + windowMs - 1

\* C18: every error response the server sends, whichever part of it answers
\* (the limiter, the task controller, the 404 handler, the global error
\* handler), is a JSON body of the envelope with success false.
C18_ErrorEnvelope ==
    wire.status >= 400 =>
        /\ wire.json # << >>
        /\ wire.json[1].success = FALSE

\* Two failures of the same endpoint, one after the other.
C19_FailureStep ==
    (last.status = 500 /\ last'.status = 500 /\ last'.op = last.op) =>
        View(last') = View(last)
\* C19: a task operation that fails in the storage answers 500 with a generic
\* message only: two failures of the same endpoint with different internal
\* error texts get identical response bodies.
C19_GenericFailure == [][C19_FailureStep]_vars

\* What a step may do to the password column.
C20_PasswordStep ==
    /\ \A fields \in AuthUserFields :
          (Register(fields) /\ last'.status = 201) =>
              /\ DOMAIN users' = DOMAIN users \cup {users_id_seq'}
              /\ users'[users_id_seq'].password = BcryptHash(fields.password)
              /\ users'[users_id_seq'].password # fields.password
              /\ VerifyPassword(fields.password, users'[users_id_seq'].password)
    /\ \A id \in DOMAIN users \cap DOMAIN users' :
          users'[id].password = users[id].password
    /\ last'.op # "register" => DOMAIN users' \subseteq DOMAIN users
\* C20: a registration stores the bcrypt hash of the submitted password, never
\* the password itself, and nothing changes it afterwards, User.update of
\* name, email or role included: every stored password is the hash written
\* when its user was created.
C20_PasswordHash ==
    [][C20_PasswordStep]_vars
    /\ [](\A id \in DOMAIN users : users[id].password \notin Passwords)
\* A user's name and email were updated and a role was changed; the passwords
\* are still the hashes of what was submitted.
C20_Witness ==
    /\ last.op = "userUpdate"
    /\ last.status = 200
    /\ \E id \in DOMAIN users :
          /\ users[id].name = "n2"
          /\ users[id].role = "admin"
          /\ \E password \in Passwords : VerifyPassword(password, users[id].password)

\* No two users share an email.
C21_EmailsDiffer ==
    \A a, b \in DOMAIN users : a # b => users[a].email # users[b].email
\* A registration or an update that asks for an email another user holds.
C21_DuplicateStep ==
    /\ \A fields \in AuthUserFields :
          (/\ Register(fields)
           /\ \E u \in DOMAIN users : users[u].email = fields.email)
          => (users' = users /\ last'.status >= 400)
    /\ \A id \in UserIds, fields \in ProfileUpdates :
          (/\ UserUpdate(id, fields)
           /\ fields.email # Undefined
           /\ \E u \in DOMAIN users \ {id} : users[u].email = fields.email)
          => (users' = users /\ last'.status >= 400)
\* C21: emails are unique in the users table in every reachable state: a
\* registration or an update that would give a user an email another user
\* holds fails and leaves the table as it was.
C21_EmailUnique == []C21_EmailsDiffer /\ [][C21_DuplicateStep]_vars
\* Two users exist and an update of one to the email of the other was refused.
C21_Witness ==
    /\ last.op = "userUpdate"
    /\ last.status = 500
    /\ last.id \in DOMAIN users
    /\ users[last.id].email = "e1"
    /\ \E u \in DOMAIN users \ {last.id} : users[u].email = "e2"

\* C22: list returns the tasks newest first: of any two tasks in the returned
\* sequence the one with the later created_at comes first, for administrators
\* and for other users (tasks with the same created_at come in either order).
C22_NewestFirst ==
    last.op = "getAllTasks" =>
        \A i, j \in DOMAIN last.data :
            /\ i < j => last.data[i].created_at >= last.data[j].created_at
            /\ last.data[i].created_at > last.data[j].created_at => i < j
\* A list of two tasks created at different times, the older one updated
\* last, came back with the newer one first.
C22_Witness ==
    /\ last.op = "getAllTasks"
    /\ Len(last.data) = 2
    /\ last.data[1].created_at > last.data[2].created_at
    /\ last.data[2].updated_at > last.data[1].updated_at
    /\ last.data[1].id > last.data[2].id

\* C23: concurrent updates of one task are serialized row writes. Each write
\* that commits applies its SET list to the row as the write committed just
\* before left it: a field the request supplies gets the request's value, any
\* other field keeps the value it had, every other row is untouched and the
\* answer carries the row as written; so the row is always the result of
\* applying the committed updates one after the other in commit order, and no
\* field holds a value that no update wrote and that was not there before.
\* The split statement agrees with Task.update on every committed row.
C23_CommitStep ==
    \A i \in DOMAIN net :
        (/\ net[i].phase = "scanned"
         /\ Len(net') = Len(net)
         /\ net'[i].phase = "answered"
         /\ net'[i].status = 200)
        => /\ net[i].id \in DOMAIN tasks
           /\ DOMAIN tasks' = DOMAIN tasks
           /\ \A f \in TaskFields :
                tasks'[net[i].id][f] =
                    IF net[i].body[f] # Undefined THEN net[i].body[f]
                    ELSE tasks[net[i].id][f]
           /\ tasks'[net[i].id].id = tasks[net[i].id].id
           /\ tasks'[net[i].id].user_id = tasks[net[i].id].user_id
           /\ tasks'[net[i].id].created_at = tasks[net[i].id].created_at
           /\ \A other \in DOMAIN tasks \ {net[i].id} : tasks'[other] = tasks[other]
           /\ net'[i].data = <<tasks'[net[i].id]>>
           /\ tasks'[net[i].id] = TaskUpdateRow(net[i].id, net[i].user.id, IsAdmin(net[i].user), net[i].body)
C23_NoWriteElsewhere ==
    (\A i \in DOMAIN net :
        ~(/\ net[i].phase = "scanned"
          /\ Len(net') = Len(net)
          /\ net'[i].phase = "answered"
          /\ net'[i].status = 200))
    => \A id \in DOMAIN tasks \cap DOMAIN tasks' : tasks'[id] = tasks[id]
C23_SerializedUpdates == [][C23_CommitStep /\ C23_NoWriteElsewhere]_vars
\* An update that found its row before another update of the row committed,
\* and committed after it: its answer has the other's status and its own title.
C23_Witness ==
    \E i \in DOMAIN net :
        /\ net[i].phase = "answered"
        /\ net[i].status = 200
        /\ net[i].body.status = Undefined
        /\ net[i].snapshot # << >>
        /\ net[i].snapshot[1].status = "pending"
        /\ net[i].data[1].status = "completed"
        /\ net[i].data[1].title = "t2"
        /\ net[i].id \in DOMAIN tasks
        /\ tasks[net[i].id] = net[i].data[1]

\* A client that has used up its window: max of its requests were counted
\* and the window has not ended.
AtLimit(client) == hits[client].resetTime > now /\ hits[client].totalHits >= max
C24_LimiterStep ==
    /\ \A client \in Clients :
          (hits'[client] # hits[client] /\ AtLimit(client))
          => /\ wire'.handler = "limiter"
             /\ wire'.status = 429
             /\ UNCHANGED <<users, users_id_seq, tasks, tasks_id_seq, tokens>>
    /\ (now' = now /\ wire'.handler \in {"authenticate", "notFound"})
       => \E client \in Clients :
             /\ hits'[client] = Increment(client)
             /\ hits'[client] # hits[client]
             /\ wire'.status \in {401, 404}
\* C24: the limiter runs before the routes under /api/. From the request that
\* reaches a client's limit until the window ends, no request of that client
\* changes the users or the tasks table: each is answered 429 by the limiter.
\* A request that is passed on and then fails authentication (401), or
\* matches no route (404), has been counted against the client's limit.
C24_LimiterBeforeRoutes == [][C24_LimiterStep]_vars
\* A client was refused at its limit while both tables hold rows and the
\* other client is still served.
C24_Witness ==
    /\ wire.handler = "limiter"
    /\ users # << >>
    /\ DOMAIN tasks # {}
    /\ \E client \in Clients :
          /\ hits[client].totalHits > max
          /\ hits[client].resetTime > now
          /\ \E other \in Clients \ {client} : ~AtLimit(other)

C25_HealthStep ==
    (now' = now /\ wire'.handler \in {"root", "health"})
    => /\ wire'.status = 200
       /\ wire'.json # << >>
       /\ wire'.json[1].success = TRUE
       /\ hits' = hits
       /\ admitted' = admitted
       /\ UNCHANGED <<users, users_id_seq, tasks, tasks_id_seq, tokens>>
\* C25: GET / and GET /health are answered outside the limiter: the answer is
\* 200 with success true however many requests the client has made, and the
\* request is not counted against any client's limit.
C25_OutsideLimiter == [][C25_HealthStep]_vars
\* GET / or GET /health was answered 200 while every client is over its limit.
C25_Witness ==
    /\ wire.handler \in {"root", "health"}
    /\ wire.status = 200
    /\ \A client \in Clients :
          /\ hits[client].totalHits > max
          /\ hits[client].resetTime > now

\* The task ids that were given out and whose row is no longer there.
Gone == {id \in TaskIds : id <= tasks_id_seq /\ id \notin DOMAIN tasks}
\* Task.findById and Task.findAll return no deleted task, for any principal.
C26_GoneIsUnseen ==
    \A id \in Gone, p \in Principals :
        /\ TaskFindById(id, p.id, IsAdmin(p)) = << >>
        /\ \A rows \in TaskFindAll(p.id, IsAdmin(p)) : id \notin Ids(rows)
C26_DeleteStep ==
    /\ \A user \in tokens, id \in TaskIds :
          (deleteTask(user, id) /\ last'.status = 200)
          => /\ id \in DOMAIN tasks
             /\ DOMAIN tasks' = DOMAIN tasks \ {id}
             /\ \A other \in DOMAIN tasks' : tasks'[other] = tasks[other]
             /\ id \in Gone'
    /\ \A id \in Gone :
          /\ id \in Gone'
          /\ \A user \in tokens :
                /\ getTaskById(user, id) => last'.status = 404 /\ last'.data = << >>
                /\ getAllTasks(user) => id \notin Ids(last'.data)
                /\ deleteTask(user, id) => last'.status = 404 /\ tasks' = tasks
\* C26: a successful delete removes exactly the task it names and leaves
\* every other task as it was; from then on the task stays deleted (its id is
\* not given out again), no list and no getTaskById returns it to any
\* principal, and another delete of it answers 404.
C26_Deleted == []C26_GoneIsUnseen /\ [][C26_DeleteStep]_vars
\* A task was just deleted by its owner, who has another one that remains.
C26_Witness ==
    /\ last.op = "deleteTask"
    /\ last.status = 200
    /\ last.id \in Gone
    /\ DOMAIN tasks # {}
    /\ \E id \in DOMAIN tasks : tasks[id].user_id = last.user.id

\* C27: in every reachable state and for every principal, the stats that
\* Task.getStats returns satisfy total = pending + in_progress + completed.
C27_TotalIsSum ==
    \A p \in Principals :
        LET stats == TaskGetStats(p.id, IsAdmin(p))
        IN  stats.total = stats.pending + stats.in_progress + stats.completed

\* C28: the stored password hash is returned by User.findByEmail only: in
\* every state of the users table, the records that User.create, User.findById,
\* User.findAll and User.update return have no password field, while the
\* record of User.findByEmail is the stored row with its hash.
C28_HashOnlyByEmail ==
    /\ \A fields \in AuthUserFields : "password" \notin DOMAIN UserCreateReturns(fields)
    /\ \A id \in UserIds :
          \A i \in DOMAIN UserFindById(id) :
              /\ "password" \notin DOMAIN UserFindById(id)[i]
              /\ UserFindById(id)[i].email = users[id].email
    /\ \A row \in UserFindAll : "password" \notin DOMAIN row
    /\ \A id \in DOMAIN users, fields \in ProfileUpdates :
          "password" \notin DOMAIN UserUpdateReturns(id, fields)
    /\ \A id \in DOMAIN users :
          /\ UserFindByEmail(users[id].email) = <<users[id]>>
          /\ "password" \in DOMAIN UserFindByEmail(users[id].email)[1]
          /\ UserFindByEmail(users[id].email)[1].password = users[id].password
\* Two users are stored with their hashes, and one was just updated.
C28_Witness ==
    /\ Cardinality(DOMAIN users) = 2
    /\ \A id \in DOMAIN users :
          /\ users[id].password = BcryptHash("p1")
          /\ UserFindById(id) # << >>
    /\ last.op = "userUpdate"
    /\ last.status = 200

\* C29: in the Dashboard, once every request in flight has been answered and
\* its answer handled, the displayed list and stats are the server's current
\* list and stats for the user, whatever the order in which the answers of
\* overlapping fetchTasks and fetchStats calls arrived.
C29_DisplayedIsCurrent ==
    (ui.mounted /\ net = << >>)
    => /\ ui.tasks \in TaskFindAll(ui.user.id, IsAdmin(ui.user))
       /\ ui.stats = <<TaskGetStats(ui.user.id, IsAdmin(ui.user))>>

\* C30: in the Dashboard, whenever editingTask is not null the modal is shown.
C30_EditingImpliesShown == ui.editingTask # << >> => ui.showModal

====
